---- MODULE Spec2Model ----
(***************************************************************************)
(* The voice scheduler of ksynth-midi-renderer (src/src/multi_synth.rs):   *)
(* MultiSynth partitions a total voice budget over KSynth instances and    *)
(* routes packed MIDI commands to them.                                    *)
(*                                                                         *)
(* Vectors (Vec<T>) are functions over 0..len-1, so that slot indices are  *)
(* the 0-based indices of the source.  A KSynth instance is the record of  *)
(* what it was constructed with; the commands MultiSynth forwards to the   *)
(* instances during one call are logged, in order, in the variable sent.   *)
(*                                                                         *)
(* The peak limiter (src/src/limiter.rs) is modelled in exact rationals,   *)
(* alone and as the render loop of src/src/main.rs applies it.             *)
(***************************************************************************)
EXTENDS Integers, Sequences, FiniteSets

\* ---------------------------------------------------------------- bounds

\* num_cpus::get() is drawn from 1..MaxThreads
MaxThreads == 3
\* total voice budgets are drawn from 0..MaxVoices
MaxVoices == 3
\* requested instance counts are drawn from 0..MaxInstances
MaxInstances == 3
\* the wider ranges of the construction-only specification SpecBuild
BuildMaxThreads == 4
BuildMaxVoices == 10
BuildMaxInstances == 5
\* at most MaxPending note-ons of one key wait for their note-off (SpecPaired)
MaxPending == 2
\* the ranges of the rendering specification SpecRender: execution units and
\* requested instances, total voice budgets, and the length of the output
RenderMaxThreads == 2
RenderMaxVoices == 2
MaxFrames == 1
\* one fill_buffer call has the instances render at most MaxRendered samples
\* between them
MaxRendered == 2
\* the limiter specification SpecLimiter: one Limiter is given buffers of at
\* most MaxBuffer samples, MaxSamples samples in all
MaxBuffer == 2
MaxSamples == 4
\* the render loop specification SpecMain: buffers of 1..MaxChannels channels,
\* MaxTotalFrames frames in all
MaxChannels == 2
MaxTotalFrames == 2
\* the parallel rendering specification SpecParallel: at most MaxWorkers
\* instances render buffers of at most MaxParLen samples
MaxWorkers == 2
MaxParLen == 2
\* the render loop specification SpecLoop: at most MaxEvents events at sample
\* rates of 1..MaxSampleRate Hz
MaxEvents == 3
MaxSampleRate == 2

\* ------------------------------------------------------- packed commands

NoteOn == 144
NoteOff == 128
ControlChange == 176
DrumChannel == 9

\* a command as the renderer packs it: status | note << 8 | velocity << 16
Pack(status, note, velocity) == status + note * 256 + velocity * 65536

\* queue_midi_cmd's decoding of a packed command
Status(cmd) == cmd % 256
Note(cmd) == (cmd \div 256) % 256
Velocity(cmd) == (cmd \div 65536) % 256
ChannelOf(cmd) == Status(cmd) % 16
StatusNibble(cmd) == Status(cmd) - (Status(cmd) % 16)

\* the note-off note_on and the rebalancing calls synthesize
note_off_cmd(channel, note) == (NoteOff + channel) + note * 256 + 0 * 65536

NoteKey(channel, note) == [channel |-> channel, note |-> note]

\* the keys the environment plays: two on channel 0, one on the drum channel
Keys == {NoteKey(0, 60), NoteKey(0, 61), NoteKey(DrumChannel, 60)}

\* the commands the environment queues: note-ons with velocity 100 and 0,
\* note-offs with a release velocity that tells them from the synthesized
\* ones, and one control change per channel
NoteCmds ==
  {Pack(NoteOn + k.channel, k.note, v) : k \in Keys, v \in {0, 100}}
    \cup {Pack(NoteOff + k.channel, k.note, 64) : k \in Keys}
\* channel-wide commands: a control change on channel 0 and on the drum
\* channel, and the two ends of 0xA0..=0xEF
ChannelWideCmds ==
  {Pack(ControlChange + ch, 64, 127) : ch \in {0, DrumChannel}}
    \cup {Pack(160, 60, 127), Pack(239, 0, 64)}
\* statuses queue_midi_cmd does not recognize: a status byte below 0x80 and
\* the status nibble 0xF0, on channel 0 and on the drum channel
UnrecognizedCmds ==
  {Pack(st + ch, 60, 100) : st \in {112, 240}, ch \in {0, DrumChannel}}
Cmds == NoteCmds \cup ChannelWideCmds \cup UnrecognizedCmds

\* ---------------------------------------------------------------- vectors

VLen(v) == Cardinality(DOMAIN v)
EmptyVec == [i \in {} |-> 0]
Push(v, x) == [i \in 0..VLen(v) |-> IF i < VLen(v) THEN v[i] ELSE x]
Zeros(n) == [i \in 0..(n - 1) |-> 0]

RECURSIVE SumUpTo(_, _)
SumUpTo(v, n) == IF n = 0 THEN 0 ELSE v[n - 1] + SumUpTo(v, n - 1)
Sum(v) == SumUpTo(v, VLen(v))

\* HashMap<NoteKey, usize>
EmptyMap == [k \in {} |-> 0]
MapInsert(m, k, x) == [j \in (DOMAIN m) \cup {k} |-> IF j = k THEN x ELSE m[j]]
MapRemove(m, k) == [j \in (DOMAIN m) \ {k} |-> m[j]]

\* the orders in which a HashMap's entries can be iterated
Orders(S) == {o \in [1..Cardinality(S) -> S] : \A i, j \in DOMAIN o : i # j => o[i] # o[j]}

\* ------------------------------------------------------------ build_synths

\* num_instances after the two clamps
ClampInstances(num_instances, max_threads) ==
  LET capped == IF num_instances > max_threads THEN max_threads ELSE num_instances
  IN  IF capped = 0 THEN 1 ELSE capped

\* a faulty variant: the remainder is never handed out
DistributeVoicesNoRemainder(max_total_voices, num_instances) ==
  [i \in 0..(num_instances - 1) |-> max_total_voices \div num_instances]

\* a faulty variant: the last instances, not the first, get the extra voice
DistributeVoicesLast(max_total_voices, num_instances) ==
  [i \in 0..(num_instances - 1) |->
     (max_total_voices \div num_instances)
       + (IF i >= num_instances - (max_total_voices % num_instances) THEN 1 ELSE 0)]

\* base_voice_count for everyone, one more for the first V % N
DistributeVoices(max_total_voices, num_instances) ==
  [i \in 0..(num_instances - 1) |->
     (max_total_voices \div num_instances)
       + (IF i < max_total_voices % num_instances THEN 1 ELSE 0)]

\* a faulty variant: instances of capacity 0 are built too
KeepInstanceAlways(voices) == voices >= 0

\* the test that decides whether an instance is constructed
KeepInstance(voices) == voices > 0

\* a faulty variant: every instance is given the kit
current_drum_kit_for_all(i, drum_kit) == drum_kit

\* whether the instance built from entry i of max_voices is given the kit
current_drum_kit(i, drum_kit) == i = 0 /\ drum_kit

\* the loop that constructs the instances with voices > 0, from index i on
RECURSIVE ConstructFrom(_, _, _, _)
ConstructFrom(all_voices, drum_kit, i, acc) ==
  IF i >= VLen(all_voices) THEN acc
  ELSE ConstructFrom(all_voices, drum_kit, i + 1,
         IF KeepInstance(all_voices[i])
           THEN [synths |-> Push(acc.synths,
                                 [max_polyphony |-> all_voices[i],
                                  drum_kit |-> current_drum_kit(i, drum_kit)]),
                 max_voices |-> Push(acc.max_voices, all_voices[i])]
           ELSE acc)

build_synths(max_total_voices, drum_kit, num_instances, max_threads) ==
  LET n == ClampInstances(num_instances, max_threads)
  IN  ConstructFrom(DistributeVoices(max_total_voices, n), drum_kit, 0,
                    [synths |-> EmptyVec, max_voices |-> EmptyVec])

\* MultiSynth::new
new(max_total_voices, drum_kit, num_instances, max_threads) ==
  LET built == build_synths(max_total_voices, drum_kit, num_instances, max_threads)
  IN  [synths |-> built.synths,
       note_map |-> EmptyMap,
       note_counts |-> Zeros(VLen(built.synths)),
       max_voices |-> built.max_voices,
       drum_kit_storage |-> drum_kit,
       max_total_voices |-> max_total_voices,
       sent |-> << >>,
       fault |-> FALSE]

\* ---------------------------------------------------------- queue_midi_cmd

\* self.synths[idx].queue_midi_cmd(cmd): indexing past the end panics
Forward(self, idx, cmd) ==
  IF self.fault THEN self
  ELSE IF idx \in DOMAIN self.synths
    THEN [self EXCEPT !.sent = Append(@, [idx |-> idx, cmd |-> cmd])]
    ELSE [self EXCEPT !.fault = TRUE]

\* if self.note_counts[idx] > 0 { self.note_counts[idx] -= 1 }
Decrement(self, idx) ==
  IF self.fault THEN self
  ELSE [self EXCEPT !.note_counts[idx] = IF @ > 0 THEN @ - 1 ELSE @]

\* a faulty variant: a slot that is full still counts as free
EligibleUpToCapacity(note_counts, max_voices) ==
  {i \in DOMAIN note_counts : note_counts[i] <= max_voices[i]}

\* a faulty variant: every slot counts as free
EligibleAlways(note_counts, max_voices) == DOMAIN note_counts

\* the filter of the slot search: load strictly below capacity
Eligible(note_counts, max_voices) ==
  {i \in DOMAIN note_counts : note_counts[i] < max_voices[i]}

\* a faulty variant: of several slots with the lowest load the last one wins
MaxIndexMinByKey(candidates, note_counts) ==
  CHOOSE i \in candidates :
    \A j \in candidates :
      note_counts[i] < note_counts[j] \/ (note_counts[i] = note_counts[j] /\ i >= j)

\* Iterator::min_by_key: of several minima the first is returned
MinByKey(candidates, note_counts) ==
  CHOOSE i \in candidates :
    \A j \in candidates :
      note_counts[i] < note_counts[j] \/ (note_counts[i] = note_counts[j] /\ i <= j)

\* a faulty variant: a key that is already routed is not released
KeepOld(self, channel, note) == self

\* the first half of note_on: a key that is already routed is released
ReleaseOld(self, channel, note) ==
  LET note_key == NoteKey(channel, note)
  IN  IF note_key \in DOMAIN self.note_map
        THEN LET old_idx == self.note_map[note_key]
             IN  Decrement(Forward(self, old_idx, note_off_cmd(channel, note)), old_idx)
        ELSE self

\* a faulty variant: the load of the chosen slot is not counted
AdmitUncounted(self, note_key, idx, cmd) ==
  LET queued == Forward(self, idx, cmd)
  IN  IF queued.fault THEN queued
      ELSE [queued EXCEPT !.note_map = MapInsert(@, note_key, idx)]

\* the body of the slot search's Some branch
Admit(self, note_key, idx, cmd) ==
  LET queued == Forward(self, idx, cmd)
  IN  IF queued.fault THEN queued
      ELSE [queued EXCEPT !.note_map = MapInsert(@, note_key, idx),
                          !.note_counts[idx] = @ + 1]

note_on(self, channel, note, cmd) ==
  LET note_key == NoteKey(channel, note)
      released == ReleaseOld(self, channel, note)
      candidates == Eligible(released.note_counts, released.max_voices)
  IN  IF released.fault \/ candidates = {} THEN released
      ELSE Admit(released, note_key, MinByKey(candidates, released.note_counts), cmd)

\* a faulty variant: the load is left as it is
note_off_uncounted(self, channel, note, cmd) ==
  LET note_key == NoteKey(channel, note)
  IN  IF note_key \in DOMAIN self.note_map
        THEN Forward([self EXCEPT !.note_map = MapRemove(@, note_key)],
                     self.note_map[note_key], cmd)
        ELSE self

\* a faulty variant: the entry stays in the table
note_off_keeps_key(self, channel, note, cmd) ==
  LET note_key == NoteKey(channel, note)
  IN  IF note_key \in DOMAIN self.note_map
        THEN LET idx == self.note_map[note_key]
             IN  Decrement(Forward(self, idx, cmd), idx)
        ELSE self

note_off(self, channel, note, cmd) ==
  LET note_key == NoteKey(channel, note)
  IN  IF note_key \in DOMAIN self.note_map
        THEN LET idx == self.note_map[note_key]
                 removed == [self EXCEPT !.note_map = MapRemove(@, note_key)]
             IN  Decrement(Forward(removed, idx, cmd), idx)
        ELSE self

\* a faulty variant: the broadcast stops before the last instance
RECURSIVE BroadcastButLast(_, _, _)
BroadcastButLast(self, i, cmd) ==
  IF i + 1 >= VLen(self.synths) THEN self
  ELSE BroadcastButLast(Forward(self, i, cmd), i + 1, cmd)

\* for synth in &mut self.synths { synth.queue_midi_cmd(cmd) }, from index i on
RECURSIVE Broadcast(_, _, _)
Broadcast(self, i, cmd) ==
  IF i >= VLen(self.synths) THEN self
  ELSE Broadcast(Forward(self, i, cmd), i + 1, cmd)

\* a faulty variant: channel 9 takes the drum path whether or not a kit was given
DrumPathWithoutKit(self, channel) == channel = DrumChannel

\* channel == 0x09 && self.drum_kit_storage.is_some()
DrumPath(self, channel) == channel = DrumChannel /\ self.drum_kit_storage

\* a faulty variant: every status from 0xA0 on is broadcast
IsChannelWideFrom(status_nibble) == status_nibble >= 160

\* the match arm 0xA0..=0xEF
IsChannelWide(status_nibble) == status_nibble >= 160 /\ status_nibble <= 239

\* a faulty variant: a note-on is a note-on whatever its velocity
queue_midi_cmd_any_velocity(self0, cmd) ==
  LET self == [self0 EXCEPT !.sent = << >>]
      note == Note(cmd)
      channel == ChannelOf(cmd)
      status_nibble == StatusNibble(cmd)
  IN  IF DrumPath(self, channel)
        THEN IF status_nibble = NoteOn \/ status_nibble = NoteOff
               THEN Forward(self, 0, cmd)
               ELSE self
        ELSE IF status_nibble = NoteOn
               THEN note_on(self, channel, note, cmd)
             ELSE IF status_nibble = NoteOff
               THEN note_off(self, channel, note, cmd)
             ELSE IF IsChannelWide(status_nibble)
               THEN Broadcast(self, 0, cmd)
             ELSE self

queue_midi_cmd(self0, cmd) ==
  LET self == [self0 EXCEPT !.sent = << >>]
      note == Note(cmd)
      velocity == Velocity(cmd)
      channel == ChannelOf(cmd)
      status_nibble == StatusNibble(cmd)
  IN  IF DrumPath(self, channel)
        THEN IF status_nibble = NoteOn \/ status_nibble = NoteOff
               THEN Forward(self, 0, cmd)
               ELSE self
        ELSE IF status_nibble = NoteOn
               THEN IF velocity = 0
                      THEN note_off(self, channel, note, cmd)
                      ELSE note_on(self, channel, note, cmd)
             ELSE IF status_nibble = NoteOff
               THEN note_off(self, channel, note, cmd)
             ELSE IF IsChannelWide(status_nibble)
               THEN Broadcast(self, 0, cmd)
             ELSE self

\* ------------------------------------------------------------- rebalancing

\* a faulty variant: the flush addresses the instances by the position in the iteration
FlushTargetByPosition(self, order, i) == i - 1

\* the instance the i-th entry of the iteration is flushed to
FlushTarget(self, order, i) == self.note_map[order[i]]

\* the loop over &self.note_map, in the iteration order `order`, from entry i on
RECURSIVE Flush(_, _, _)
Flush(self, order, i) ==
  IF i > Len(order) THEN self
  ELSE LET idx == FlushTarget(self, order, i)
           forwarded ==
             IF idx < VLen(self.synths)
               THEN Forward(self, idx, note_off_cmd(order[i].channel, order[i].note))
               ELSE self
       IN  Flush(forwarded, order, i + 1)

\* a faulty variant: the routing table outlives the instances it points into
RebuildKeepsRoutes(self, max_total_voices, num_instances, max_threads) ==
  LET built == build_synths(max_total_voices, self.drum_kit_storage,
                            num_instances, max_threads)
  IN  [self EXCEPT !.synths = built.synths,
                   !.max_voices = built.max_voices,
                   !.note_counts = Zeros(VLen(built.synths))]

\* the tail both rebalancing calls share: build, then replace and clear
Rebuild(self, max_total_voices, num_instances, max_threads) ==
  LET built == build_synths(max_total_voices, self.drum_kit_storage,
                            num_instances, max_threads)
  IN  [self EXCEPT !.synths = built.synths,
                   !.max_voices = built.max_voices,
                   !.note_map = EmptyMap,
                   !.note_counts = Zeros(VLen(built.synths))]

set_max_polyphony(self0, max_total_voices, order, max_threads) ==
  LET self == [self0 EXCEPT !.sent = << >>, !.max_total_voices = max_total_voices]
      flushed == Flush(self, order, 1)
  IN  IF flushed.fault THEN flushed
      ELSE Rebuild(flushed, max_total_voices, VLen(self.synths), max_threads)

\* a faulty variant: the instances are replaced before the routing table is flushed
set_num_instances_rebuild_first(self0, new_num_instances, order, max_threads) ==
  LET self == [self0 EXCEPT !.sent = << >>]
      rebuilt == Rebuild(self, self.max_total_voices, new_num_instances, max_threads)
  IN  Flush(rebuilt, <<>>, 1)

set_num_instances(self0, new_num_instances, order, max_threads) ==
  LET self == [self0 EXCEPT !.sent = << >>]
      flushed == Flush(self, order, 1)
  IN  IF flushed.fault THEN flushed
      ELSE Rebuild(flushed, self.max_total_voices, new_num_instances, max_threads)

\* --------------------------------------------------- rendering, telemetry

\* the values of a sample: silence and one full-scale unit
Samples == {0, 1}
\* the buffers of length len
Buffers(len) == [0..(len - 1) -> Samples]

\* a faulty variant: the output keeps what the caller left in it
KeepOutput(output) == output

\* output.fill(0.0)
ClearOutput(output) == Zeros(VLen(output))

\* for (o, &s) in output.iter_mut().zip(buffer.iter()) { *o += s }
AddBuffer(output, buffer) ==
  [k \in DOMAIN output |-> IF k \in DOMAIN buffer THEN output[k] + buffer[k] ELSE output[k]]

\* for buffer in &temp_buffers, from index i on
RECURSIVE AddBuffers(_, _, _)
AddBuffers(output, temp_buffers, i) ==
  IF i >= VLen(temp_buffers) THEN output
  ELSE AddBuffers(AddBuffer(output, temp_buffers[i]), temp_buffers, i + 1)

\* synth.fill_buffer(&mut temp) on temp = vec![0.0; len]: the engine leaves
\* its rendering, rendered, in the len samples of temp
RenderInto(len, rendered) == [k \in 0..(len - 1) |-> rendered[k]]

\* a faulty variant: rendering resets the loads
fill_buffer_resets_loads(self0, output, audio) ==
  [self |-> [self0 EXCEPT !.sent = << >>, !.note_counts = Zeros(VLen(self0.synths))],
   temp_buffers |-> [i \in DOMAIN self0.synths |-> RenderInto(VLen(output), audio[i])],
   output |-> AddBuffers(ClearOutput(output),
                         [i \in DOMAIN self0.synths |-> RenderInto(VLen(output), audio[i])], 0)]

\* MultiSynth::fill_buffer; audio[i] is what instance i renders in this call
fill_buffer(self0, output, audio) ==
  LET self == [self0 EXCEPT !.sent = << >>]
      len == VLen(output)
      temp_buffers == [i \in DOMAIN self.synths |-> RenderInto(len, audio[i])]
  IN  [self |-> self,
       temp_buffers |-> temp_buffers,
       output |-> AddBuffers(ClearOutput(output), temp_buffers, 0)]

\* a faulty variant: the instance of highest index is left out of the sum
get_polyphony_but_last(self, reports) ==
  IF VLen(self.synths) = 0 THEN 0 ELSE SumUpTo(reports, VLen(self.synths) - 1)

\* MultiSynth::get_polyphony; reports[i] is what synth.get_polyphony() of
\* instance i answers
get_polyphony(self, reports) == Sum([i \in DOMAIN self.synths |-> reports[i]])

\* MultiSynth::get_max_polyphony; an instance answers the max_polyphony it
\* was constructed with
get_max_polyphony(self) ==
  Sum([i \in DOMAIN self.synths |-> self.synths[i].max_polyphony])

\* ------------------------------------------ fill_buffer, step by step

\* no fill_buffer call is in progress
NoFill ==
  [phase |-> "idle", given |-> EmptyVec, audio |-> EmptyVec, status |-> EmptyVec,
   temp |-> EmptyVec, pos |-> EmptyVec, output |-> EmptyVec, summed |-> 0,
   overlapped |-> FALSE]

\* a faulty variant: collect returns as soon as one instance has rendered
SomeRendered(fill) ==
  \E i \in DOMAIN fill.status : fill.status[i] = "finished"

\* collect() returns: the closure has returned for every instance
AllRendered(fill) ==
  \A i \in DOMAIN fill.status : fill.status[i] = "finished"

\* fill_buffer is entered on output; audio[i] is what instance i renders
begin_fill(self, output, audio) ==
  [phase |-> "render", given |-> output, audio |-> audio,
   status |-> [i \in DOMAIN self.synths |-> "queued"],
   temp |-> [i \in DOMAIN self.synths |-> EmptyVec],
   pos |-> [i \in DOMAIN self.synths |-> 0],
   output |-> output, summed |-> 0, overlapped |-> FALSE]

\* the closure is entered for instance i: let mut temp = vec![0.0f32; len];
\* overlapped tells whether two instances were ever rendering at once
start_render(fill, i) ==
  [fill EXCEPT !.status[i] = "rendering", !.temp[i] = Zeros(VLen(fill.given)),
               !.overlapped = @ \/ \E j \in DOMAIN fill.status :
                                     fill.status[j] = "rendering"]

\* synth.fill_buffer(&mut temp) of instance i writes its next sample
render_sample(fill, i) ==
  [fill EXCEPT !.temp[i][fill.pos[i]] = fill.audio[i][fill.pos[i]],
               !.pos[i] = @ + 1]

\* the closure returns temp for instance i
finish_render(fill, i) == [fill EXCEPT !.status[i] = "finished"]

\* collect() has returned: output.fill(0.0)
join(fill) == [fill EXCEPT !.phase = "sum", !.output = ClearOutput(@)]

\* one turn of the loop over &temp_buffers
sum_buffer(fill) ==
  [fill EXCEPT !.output = AddBuffer(@, fill.temp[fill.summed]), !.summed = @ + 1]

\* ------------------------------------------------------------ the limiter
\* Limiter of src/src/limiter.rs.  An f32 is modelled as the exact rational
\* [n, d] in lowest terms with d > 0; the rounding of single precision is not
\* modelled.

Abs(x) == IF x < 0 THEN -x ELSE x

RECURSIVE GCD(_, _)
GCD(a, b) == IF b = 0 THEN a ELSE GCD(b, a % b)

\* n / d in lowest terms, d # 0
Rat(n, d) ==
  LET g == GCD(Abs(n), Abs(d))
      s == IF d < 0 THEN -1 ELSE 1
  IN  [n |-> s * (n \div g), d |-> s * (d \div g)]

Zero == Rat(0, 1)
One == Rat(1, 1)
RAdd(a, b) == Rat(a.n * b.d + b.n * a.d, a.d * b.d)
RSub(a, b) == Rat(a.n * b.d - b.n * a.d, a.d * b.d)
RMul(a, b) == Rat(a.n * b.n, a.d * b.d)
RDiv(a, b) == Rat(a.n * b.d, a.d * b.n)
RLt(a, b) == a.n * b.d < b.n * a.d
RLe(a, b) == a.n * b.d <= b.n * a.d
RAbs(a) == [n |-> Abs(a.n), d |-> a.d]

\* 10f32.powf(x) for a whole x
RECURSIVE powf10(_)
powf10(x) ==
  IF x = 0 THEN One
  ELSE IF x > 0 THEN RMul(Rat(10, 1), powf10(x - 1))
  ELSE RDiv(powf10(x + 1), Rat(10, 1))

\* (-1.0 / p).exp() for a time constant of p samples.  exp has no rational
\* value, so a rational of the same range and order stands for it: 0 for
\* p = 0 (-1.0 / 0.0 is -inf), p / (p + 1) in (0, 1) and growing with p for
\* p > 0, (|p| + 1) / |p| above 1 for p < 0.
exp_neg_inv(p) ==
  IF p.n = 0 THEN Zero
  ELSE IF p.n > 0 THEN RDiv(p, RAdd(p, One))
  ELSE RDiv(RAdd(RAbs(p), One), RAbs(p))

\* the decay coefficient of a time in milliseconds at a sample rate
coef(time_ms, sample_rate) ==
  exp_neg_inv(RMul(Rat(time_ms, 1000), Rat(sample_rate, 1)))

\* what a construction that panicked leaves: no instance
NoLimiter == [made |-> FALSE]

\* the instance Limiter::new returns once its assertions passed
Made(sample_rate, threshold_db, release_time_ms, lookahead_ms) ==
  [made |-> TRUE,
   sample_rate |-> sample_rate,
   threshold_db |-> threshold_db,
   threshold |-> powf10(threshold_db \div 20),
   release_coef |-> coef(release_time_ms, sample_rate),
   lookahead_coef |-> coef(lookahead_ms, sample_rate),
   peak_envelope |-> Zero,
   smoothed_gain |-> One]

\* a faulty variant: the release time is not asserted
Limiter_new_any_release(sample_rate, threshold_db, release_time_ms, lookahead_ms) ==
  IF ~(threshold_db <= 0) \/ ~(lookahead_ms > 0)
    THEN NoLimiter
    ELSE Made(sample_rate, threshold_db, release_time_ms, lookahead_ms)

\* Limiter::new; threshold_db is a multiple of 20
Limiter_new(sample_rate, threshold_db, release_time_ms, lookahead_ms) ==
  IF ~(threshold_db <= 0) \/ ~(release_time_ms > 0) \/ ~(lookahead_ms > 0)
    THEN NoLimiter
    ELSE Made(sample_rate, threshold_db, release_time_ms, lookahead_ms)

\* a faulty variant: the envelope is raised to the sample before it decays
track_peak_then_decay(self, abs_sample) ==
  LET raised == IF RLt(self.peak_envelope, abs_sample)
                  THEN abs_sample ELSE self.peak_envelope
  IN  RMul(raised, self.lookahead_coef)

\* the peak envelope after a sample: decayed, then raised to the sample
track_peak(self, abs_sample) ==
  LET decayed == RMul(self.peak_envelope, self.lookahead_coef)
  IN  IF RLt(decayed, abs_sample) THEN abs_sample ELSE decayed

\* the instantaneous target gain of a peak envelope
inst_gain(self, peak_envelope) ==
  IF RLe(peak_envelope, self.threshold)
    THEN One
    ELSE RDiv(self.threshold, peak_envelope)

\* the release step towards a target gain
release(self, target) ==
  RAdd(RMul(self.release_coef, self.smoothed_gain),
       RMul(RSub(One, self.release_coef), target))

\* a faulty variant: the attack is smoothed like the release
smooth_both_ways(self, target) == release(self, target)

\* the smoothed gain after a sample: it snaps down, it is released up
smooth(self, target) ==
  IF RLt(target, self.smoothed_gain) THEN target ELSE release(self, target)

\* a faulty variant: the limited envelope is written in place of the sample
apply_gain_to_envelope(self, sample) == RMul(self.peak_envelope, self.smoothed_gain)

\* the sample as it is written back
apply_gain(self, sample) == RMul(sample, self.smoothed_gain)

\* the body of the loop of Limiter::process for one sample
process_sample(self, sample) ==
  LET peak_envelope == track_peak(self, RAbs(sample))
      target == inst_gain(self, peak_envelope)
      smoothed_gain == smooth(self, target)
      after == [self EXCEPT !.peak_envelope = peak_envelope,
                            !.smoothed_gain = smoothed_gain]
  IN  [self |-> after, sample |-> apply_gain(after, sample)]

\* the loop of Limiter::process over buffer, the slice as the sequence of its
\* samples: the instance and the buffer it leaves and, per sample, the
\* sample, the envelope and the gain after it and the sample written back
RECURSIVE process_loop(_, _)
process_loop(buffer, done) ==
  IF done.pos > Len(buffer) THEN done
  ELSE LET step == process_sample(done.self, buffer[done.pos])
       IN  process_loop(buffer,
             [self |-> step.self,
              buffer |-> Append(done.buffer, step.sample),
              steps |-> Append(done.steps,
                         [sample |-> buffer[done.pos],
                          peak_envelope |-> step.self.peak_envelope,
                          smoothed_gain |-> step.self.smoothed_gain,
                          out |-> step.sample]),
              pos |-> done.pos + 1])

\* a faulty variant: every call starts from the state of a new instance
process_from_reset(self, buffer) ==
  LET fresh == [self EXCEPT !.peak_envelope = Zero, !.smoothed_gain = One]
      done == process_loop(buffer,
                [self |-> fresh, buffer |-> << >>, steps |-> << >>, pos |-> 1])
  IN  [self |-> done.self, buffer |-> done.buffer, steps |-> done.steps]

\* Limiter::process
process(self, buffer) ==
  LET done == process_loop(buffer,
                [self |-> self, buffer |-> << >>, steps |-> << >>, pos |-> 1])
  IN  [self |-> done.self, buffer |-> done.buffer, steps |-> done.steps]

\* ------------------------------------------- the rendering time ratio

\* f32::max of two numbers
max(a, b) == IF RLt(a, b) THEN b ELSE a

\* the fold of max over the answers of the first n instances, from 0.0
RECURSIVE fold_max(_, _)
fold_max(ratios, n) ==
  IF n = 0 THEN Zero ELSE max(ratios[n - 1], fold_max(ratios, n - 1))

\* the sum of the answers of the first n instances
RECURSIVE fold_sum(_, _)
fold_sum(ratios, n) ==
  IF n = 0 THEN Zero ELSE RAdd(fold_sum(ratios, n - 1), ratios[n - 1])

\* a faulty variant: the mean of the answers
get_rendering_time_ratio_mean(self, ratios) ==
  IF VLen(self.synths) = 0 THEN Zero
  ELSE RDiv(fold_sum(ratios, VLen(self.synths)), Rat(VLen(self.synths), 1))

\* MultiSynth::get_rendering_time_ratio; ratios[i] is what
\* synth.get_rendering_time() of instance i answers
get_rendering_time_ratio(self, ratios) == fold_max(ratios, VLen(self.synths))

\* ------------------------------------------------- the render loop
\* (src/src/main.rs)

\* merged_event.event.as_u32() is None
NoCmd == -1

\* the render loop is not entered
NoLoop ==
  [phase |-> "off", sample_rate |-> 0, num_channel |-> 0, time_acc |-> Zero,
   total_rendered_frames |-> 0, events |-> << >>, journal |-> << >>]

\* time_acc.floor() as usize, for a time_acc that is not negative
floor(x) == x.n \div x.d

\* the locals as the loop is entered
enter_loop(sample_rate, num_channel) ==
  [phase |-> "loop", sample_rate |-> sample_rate, num_channel |-> num_channel,
   time_acc |-> Zero, total_rendered_frames |-> 0, events |-> << >>,
   journal |-> << >>]

\* what a fill_buffer call on a buffer of len samples leaves in the journal
filled_entry(len) == [op |-> "fill_buffer", len |-> len, cmd |-> NoCmd, event |-> 0]

\* what the queue_midi_cmd call of event number event leaves in the journal
queued_entry(cmd, event) ==
  [op |-> "queue_midi_cmd", len |-> 0, cmd |-> cmd, event |-> event]

\* a faulty variant: the command is queued before the frames are rendered
loop_body_queue_first(self, delta, event) ==
  LET advanced == RAdd(self.time_acc, RMul(delta, Rat(self.sample_rate, 1)))
      frame_count == floor(advanced)
      number == Len(self.events) + 1
  IN  [self EXCEPT
         !.time_acc = RSub(advanced, Rat(frame_count, 1)),
         !.total_rendered_frames = @ + frame_count,
         !.events = Append(@, [delta |-> delta, event |-> event]),
         !.journal = @ \o (IF event # NoCmd
                             THEN <<queued_entry(event, number)>> ELSE << >>)
                       \o (IF frame_count > 0
                             THEN <<filled_entry(frame_count * self.num_channel)>>
                             ELSE << >>)]

\* the body of the loop over merge_midi() for one event: delta in seconds,
\* event the packed command or NoCmd
loop_body(self, delta, event) ==
  LET advanced == RAdd(self.time_acc, RMul(delta, Rat(self.sample_rate, 1)))
      frame_count == floor(advanced)
      number == Len(self.events) + 1
  IN  [self EXCEPT
         !.time_acc = RSub(advanced, Rat(frame_count, 1)),
         !.total_rendered_frames = @ + frame_count,
         !.events = Append(@, [delta |-> delta, event |-> event]),
         !.journal = @ \o (IF frame_count > 0
                             THEN <<filled_entry(frame_count * self.num_channel)>>
                             ELSE << >>)
                       \o (IF event # NoCmd
                             THEN <<queued_entry(event, number)>> ELSE << >>)]

\* the number of seconds the tail is meant to last
duration_sec == 1

\* the length of the buffer rendered once the events are exhausted
tail_len(self) ==
  LET frame_count == self.sample_rate * self.num_channel * duration_sec
  IN  frame_count * self.num_channel

\* the code that follows the loop
tail(self) ==
  [self EXCEPT !.phase = "ended",
               !.journal = Append(@, filled_entry(tail_len(self)))]

\* ------------------------------------------------------------------- state

VARIABLES
  max_threads,       \* num_cpus::get()
  synths,            \* Vec<KSynth>: what each instance was constructed with
  note_map,          \* HashMap<NoteKey, usize>
  note_counts,       \* Vec<u32>
  max_voices,        \* Vec<u32>
  drum_kit_storage,  \* Option<DrumKit>, as is_some()
  max_total_voices,  \* u32
  fault,             \* a panic was raised
  sent,              \* the commands the last call forwarded: [idx, cmd], in order
  last,              \* the last call and its argument
  pre,               \* note_map and note_counts as the last call found them
  built,             \* the arguments of the last build_synths call
  twin,              \* a second scheduler, built alike and fed the same calls
  pending,           \* per key, the note-ons still waiting for their note-off
  retrigger,         \* the progress of on, on, off, off on the key (0, 60)
  result,            \* what the last call returned or left in its output buffer
  struck,            \* the instances a note-on was queued on since they were built
  limiter,           \* a Limiter, or what a failed construction leaves
  made_with,         \* the arguments limiter was constructed with
  trace,             \* per sample limiter processed: the sample, the envelope and
                     \* the gain after it, and the sample written back
  calls,             \* the buffer lengths of the last two process calls on limiter
  num_channel,       \* main: the channel count of the interleaved buffer
  limiters,          \* main: Option<[Limiter; 2]>, as the sequence of its items
  synth_buffer,      \* main: the last buffer as the sink received it
  consumed,          \* main: per limiter, the indices of synth_buffer its
                     \* last process call was given, in order
  total_rendered_frames, \* main: the frames rendered so far
  requested,         \* the instance count MultiSynth::new or set_num_instances
                     \* was last given (kept by SpecRebuild only, else 0)
  par,               \* a fill_buffer call step by step: its phase, its buffers
                     \* and the progress of every instance
  loop               \* main: the locals of the render loop and the calls it made

vars == <<max_threads, synths, note_map, note_counts, max_voices, drum_kit_storage,
          max_total_voices, fault, sent, last, pre, built, twin, pending, retrigger,
          result, struck, limiter, made_with, trace, calls,
          num_channel, limiters, synth_buffer, consumed, total_rendered_frames,
          requested, par, loop>>

\* the state of the scheduler
scheduler_vars ==
  <<max_threads, synths, note_map, note_counts, max_voices, drum_kit_storage,
    max_total_voices, fault, sent, last, pre, built, twin, pending, retrigger,
    result, struck, requested>>
\* the state of the limiter on its own
limiter_vars == <<limiter, made_with, trace, calls>>
\* the state of the limiters of the render loop
main_vars ==
  <<num_channel, limiters, synth_buffer, consumed, total_rendered_frames>>
\* the state of a fill_buffer call in progress
render_vars == <<par>>
\* the state of the render loop
loop_vars == <<loop>>

Self ==
  [synths |-> synths, note_map |-> note_map, note_counts |-> note_counts,
   max_voices |-> max_voices, drum_kit_storage |-> drum_kit_storage,
   max_total_voices |-> max_total_voices, sent |-> sent, fault |-> fault]

\* the scheduler is in state self
Is(self) ==
  /\ synths = self.synths
  /\ note_map = self.note_map
  /\ note_counts = self.note_counts
  /\ max_voices = self.max_voices
  /\ drum_kit_storage = self.drum_kit_storage
  /\ max_total_voices = self.max_total_voices
  /\ sent = self.sent
  /\ fault = self.fault

\* the scheduler is left in state self
Becomes(self) ==
  /\ synths' = self.synths
  /\ note_map' = self.note_map
  /\ note_counts' = self.note_counts
  /\ max_voices' = self.max_voices
  /\ drum_kit_storage' = self.drum_kit_storage
  /\ max_total_voices' = self.max_total_voices
  /\ sent' = self.sent
  /\ fault' = self.fault

Snapshot == [note_map |-> note_map, note_counts |-> note_counts]

\* the result of a call that returns nothing and fills no buffer
NoResult ==
  [value |-> 0, reports |-> EmptyVec,
   given |-> EmptyVec, buffers |-> EmptyVec, output |-> EmptyVec]

K0 == NoteKey(0, 60)
KeyOf(cmd) == NoteKey(ChannelOf(cmd), Note(cmd))
IsNoteOn(cmd) == StatusNibble(cmd) = NoteOn /\ Velocity(cmd) > 0
IsNoteOff(cmd) ==
  StatusNibble(cmd) = NoteOff \/ (StatusNibble(cmd) = NoteOn /\ Velocity(cmd) = 0)
\* the command takes the melodic path of a scheduler with or without a kit
Melodic(cmd, drum_kit) == ~(ChannelOf(cmd) = DrumChannel /\ drum_kit)
\* the command itself reached an engine
Forwarded(cmd, log) == \E i \in DOMAIN log : log[i].cmd = cmd

\* no limiter was constructed on its own
NoLimiterAlone ==
  /\ limiter = NoLimiter
  /\ made_with = << >>
  /\ trace = << >>
  /\ calls = << >>

\* the render loop is not entered
NoRenderLoop ==
  /\ num_channel = 1
  /\ limiters = << >>
  /\ synth_buffer = EmptyVec
  /\ consumed = << >>
  /\ total_rendered_frames = 0

NoLimiters == NoLimiterAlone /\ NoRenderLoop

\* the scheduler as MultiSynth::new returns it
ConstructedScheduler(threads, voices, drum_kit, num_instances) ==
  /\ max_threads = threads
  /\ Is(new(voices, drum_kit, num_instances, threads))
  /\ twin = new(voices, drum_kit, num_instances, threads)
  /\ last = [op |-> "new", cmd |-> 0]
  /\ pre = [note_map |-> EmptyMap, note_counts |-> EmptyVec]
  /\ built = [max_total_voices |-> voices, num_instances |-> num_instances]
  /\ pending = [k \in Keys |-> 0]
  /\ retrigger = [slots |-> << >>, offs |-> 0]
  /\ result = NoResult
  /\ struck = {}

Constructed(threads, voices, drum_kit, num_instances) ==
  /\ ConstructedScheduler(threads, voices, drum_kit, num_instances)
  /\ NoLimiters
  /\ requested = 0
  /\ par = NoFill
  /\ loop = NoLoop

Init ==
  \E threads \in 1..MaxThreads, voices \in 0..MaxVoices,
     drum_kit \in BOOLEAN, num_instances \in 0..MaxInstances :
    Constructed(threads, voices, drum_kit, num_instances)

\* a queue_midi_cmd call, on this scheduler and on its twin
QueueCall(cmd) ==
  /\ ~fault
  /\ Becomes(queue_midi_cmd(Self, cmd))
  /\ twin' = queue_midi_cmd(twin, cmd)
  /\ last' = [op |-> "queue_midi_cmd", cmd |-> cmd]
  /\ pre' = Snapshot
  /\ result' = NoResult
  /\ UNCHANGED <<max_threads, built, limiter_vars, main_vars, render_vars, requested>>

\* the same call made outside the render loop
Queue(cmd) == QueueCall(cmd) /\ UNCHANGED loop_vars

QueueMidiCmd ==
  \E cmd \in Cmds :
    /\ Queue(cmd)
    /\ UNCHANGED <<pending, retrigger, struck>>

\* a set_max_polyphony call
SetMaxPolyphonyCall(voices) ==
  /\ ~fault
  /\ \E order \in Orders(DOMAIN note_map) :
       Becomes(set_max_polyphony(Self, voices, order, max_threads))
  /\ \E order \in Orders(DOMAIN twin.note_map) :
       twin' = set_max_polyphony(twin, voices, order, max_threads)
  /\ last' = [op |-> "set_max_polyphony", cmd |-> voices]
  /\ pre' = Snapshot
  /\ built' = [max_total_voices |-> voices, num_instances |-> VLen(synths)]
  /\ result' = NoResult
  /\ struck' = {}
  /\ UNCHANGED <<max_threads, pending, retrigger, limiter_vars, main_vars, render_vars, loop_vars>>

SetMaxPolyphony(voices) ==
  /\ SetMaxPolyphonyCall(voices)
  /\ UNCHANGED requested

\* a set_num_instances call
SetNumInstancesCall(new_num_instances) ==
  /\ ~fault
  /\ \E order \in Orders(DOMAIN note_map) :
       Becomes(set_num_instances(Self, new_num_instances, order, max_threads))
  /\ \E order \in Orders(DOMAIN twin.note_map) :
       twin' = set_num_instances(twin, new_num_instances, order, max_threads)
  /\ last' = [op |-> "set_num_instances", cmd |-> new_num_instances]
  /\ pre' = Snapshot
  /\ built' = [max_total_voices |-> max_total_voices, num_instances |-> new_num_instances]
  /\ result' = NoResult
  /\ struck' = {}
  /\ UNCHANGED <<max_threads, pending, retrigger, limiter_vars, main_vars, render_vars, loop_vars>>

SetNumInstances(new_num_instances) ==
  /\ SetNumInstancesCall(new_num_instances)
  /\ UNCHANGED requested

Next ==
  \/ QueueMidiCmd
  \/ \E voices \in 0..MaxVoices : SetMaxPolyphony(voices)
  \/ \E new_num_instances \in 0..MaxInstances : SetNumInstances(new_num_instances)

Spec == Init /\ [][Next]_vars

\* ------------------------------------- construction and rebalancing alone

InitBuild ==
  \E threads \in 1..BuildMaxThreads, voices \in 0..BuildMaxVoices,
     drum_kit \in BOOLEAN, num_instances \in 0..BuildMaxInstances :
    Constructed(threads, voices, drum_kit, num_instances)

NextBuild ==
  \/ \E voices \in 0..BuildMaxVoices : SetMaxPolyphony(voices)
  \/ \E new_num_instances \in 0..BuildMaxInstances : SetNumInstances(new_num_instances)

SpecBuild == InitBuild /\ [][NextBuild]_vars

\* --------------------------------- rebalancing, the requests remembered

SetMaxPolyphonyTracked ==
  \E voices \in 0..BuildMaxVoices :
    /\ SetMaxPolyphonyCall(voices)
    /\ UNCHANGED requested

SetNumInstancesTracked ==
  \E new_num_instances \in 0..BuildMaxInstances :
    /\ SetNumInstancesCall(new_num_instances)
    /\ requested' = new_num_instances

InitRebuild ==
  \E threads \in 1..BuildMaxThreads, voices \in 0..BuildMaxVoices,
     drum_kit \in BOOLEAN, num_instances \in 0..BuildMaxInstances :
    /\ ConstructedScheduler(threads, voices, drum_kit, num_instances)
    /\ NoLimiters
    /\ requested = num_instances
    /\ par = NoFill
    /\ loop = NoLoop

NextRebuild ==
  \/ SetMaxPolyphonyTracked
  \/ SetNumInstancesTracked

SpecRebuild == InitRebuild /\ [][NextRebuild]_vars

\* --------------------------------------------- fill_buffer, step by step

\* the buffers the caller hands in: MaxParLen samples at most, all alike
GivenBuffers ==
  UNION {{[k \in 0..(len - 1) |-> v] : v \in Samples} : len \in 0..MaxParLen}

\* one instance per execution unit, one voice each
InitParallel ==
  \E workers \in 0..MaxWorkers :
    Constructed(IF workers = 0 THEN 1 ELSE workers, workers, FALSE, workers)

BeginFill ==
  /\ ~fault
  /\ par.phase \in {"idle", "done"}
  /\ \E output \in GivenBuffers :
       \E audio \in [DOMAIN synths -> Buffers(VLen(output))] :
         par' = begin_fill(Self, output, audio)
  /\ UNCHANGED <<scheduler_vars, limiter_vars, main_vars, loop_vars>>

\* a worker takes up an instance that waits
StartRender ==
  \E i \in DOMAIN synths :
    /\ par.phase = "render"
    /\ par.status[i] = "queued"
    /\ par' = start_render(par, i)
    /\ UNCHANGED <<scheduler_vars, limiter_vars, main_vars, loop_vars>>

\* an instance that renders writes one more sample
RenderSample ==
  \E i \in DOMAIN synths :
    /\ par.phase = "render"
    /\ par.status[i] = "rendering"
    /\ par.pos[i] < VLen(par.given)
    /\ par' = render_sample(par, i)
    /\ UNCHANGED <<scheduler_vars, limiter_vars, main_vars, loop_vars>>

\* an instance that wrote all its samples is done
FinishRender ==
  \E i \in DOMAIN synths :
    /\ par.phase = "render"
    /\ par.status[i] = "rendering"
    /\ par.pos[i] = VLen(par.given)
    /\ par' = finish_render(par, i)
    /\ UNCHANGED <<scheduler_vars, limiter_vars, main_vars, loop_vars>>

Join ==
  /\ par.phase = "render"
  /\ AllRendered(par)
  /\ par' = join(par)
  /\ UNCHANGED <<scheduler_vars, limiter_vars, main_vars, loop_vars>>

SumBuffer ==
  /\ par.phase = "sum"
  /\ par.summed < VLen(par.temp)
  /\ par' = sum_buffer(par)
  /\ UNCHANGED <<scheduler_vars, limiter_vars, main_vars, loop_vars>>

\* fill_buffer returns
EndFill ==
  /\ par.phase = "sum"
  /\ par.summed = VLen(par.temp)
  /\ par' = [par EXCEPT !.phase = "done"]
  /\ UNCHANGED <<scheduler_vars, limiter_vars, main_vars, loop_vars>>

NextParallel ==
  \/ BeginFill
  \/ StartRender
  \/ RenderSample
  \/ FinishRender
  \/ Join
  \/ SumBuffer
  \/ EndFill

SpecParallel == InitParallel /\ [][NextParallel]_vars

\* ----------------------------------------------------- the render loop

\* the delta times of the events, in seconds
Deltas == {Zero, Rat(1, 2), Rat(3, 2)}
\* the events: a note-on, its note-off, and an event that is no command
LoopEvents == {Pack(NoteOn, 60, 100), Pack(NoteOff, 60, 64), NoCmd}

InitLoop ==
  \E sample_rate \in 1..MaxSampleRate, channels \in 1..MaxChannels :
    /\ ConstructedScheduler(1, 1, FALSE, 1)
    /\ NoLimiters
    /\ requested = 0
    /\ par = NoFill
    /\ loop = enter_loop(sample_rate, channels)

\* one turn of the loop over merge_midi()
LoopEvent ==
  \E delta \in Deltas, event \in LoopEvents :
    /\ loop.phase = "loop"
    /\ Len(loop.events) < MaxEvents
    /\ loop' = loop_body(loop, delta, event)
    /\ IF event # NoCmd
         THEN QueueCall(event) /\ UNCHANGED <<pending, retrigger, struck>>
         ELSE UNCHANGED <<scheduler_vars, limiter_vars, main_vars, render_vars>>

\* merge_midi() is exhausted
TailRender ==
  /\ loop.phase = "loop"
  /\ loop' = tail(loop)
  /\ UNCHANGED <<scheduler_vars, limiter_vars, main_vars, render_vars>>

NextLoop == LoopEvent \/ TailRender

SpecLoop == InitLoop /\ [][NextLoop]_vars

\* ------------------------------------------ properly paired note commands

\* the progress of the scenario on K0 after cmd left the scheduler in state self
RetriggerAfter(cmd, self) ==
  IF KeyOf(cmd) # K0 \/ ~Melodic(cmd, self.drum_kit_storage) THEN retrigger
  ELSE IF IsNoteOn(cmd)
    THEN IF ~Forwarded(cmd, self.sent) THEN [slots |-> << >>, offs |-> 0]
         ELSE IF retrigger.offs = 0 /\ Len(retrigger.slots) = 1
           THEN [slots |-> Append(retrigger.slots, self.note_map[K0]), offs |-> 0]
         ELSE IF retrigger.offs = 0 /\ Len(retrigger.slots) = 2
           THEN [slots |-> <<retrigger.slots[2], self.note_map[K0]>>, offs |-> 0]
         ELSE [slots |-> <<self.note_map[K0]>>, offs |-> 0]
  ELSE IF Len(retrigger.slots) = 2 /\ retrigger.offs < 2
    THEN [retrigger EXCEPT !.offs = @ + 1]
  ELSE [slots |-> << >>, offs |-> 0]

\* the commands of the paired sequences: the note-ons and note-offs of the keys
PairedCmds ==
  {Pack(st + k.channel, k.note, IF st = NoteOn THEN 100 ELSE 64) :
     st \in {NoteOn, NoteOff}, k \in Keys}

\* a note-on, or the note-off of a note-on that still waits for it
QueuePaired ==
  \E cmd \in PairedCmds :
    /\ Queue(cmd)
    /\ retrigger' = RetriggerAfter(cmd, queue_midi_cmd(Self, cmd))
    /\ UNCHANGED struck
    /\ IF ~Melodic(cmd, drum_kit_storage)
         THEN UNCHANGED pending
         ELSE IF IsNoteOn(cmd)
           THEN /\ pending[KeyOf(cmd)] < MaxPending
                /\ pending' = [pending EXCEPT ![KeyOf(cmd)] = @ + 1]
           ELSE /\ pending[KeyOf(cmd)] > 0
                /\ pending' = [pending EXCEPT ![KeyOf(cmd)] = @ - 1]

\* as many instances are requested as there are execution units
InitPaired ==
  \E threads \in 1..MaxThreads, voices \in 0..MaxVoices, drum_kit \in BOOLEAN :
    Constructed(threads, voices, drum_kit, threads)

NextPaired == QueuePaired

SpecPaired == InitPaired /\ [][NextPaired]_vars

\* ------------------------------------------------ rendering and telemetry

\* a call that takes &self or renders: it forwards no command
Observed(op, cmd) ==
  /\ ~fault
  /\ Becomes([Self EXCEPT !.sent = << >>])
  /\ twin' = [twin EXCEPT !.sent = << >>]
  /\ last' = [op |-> op, cmd |-> cmd]
  /\ pre' = Snapshot
  /\ UNCHANGED <<max_threads, built, pending, retrigger, struck, limiter_vars, main_vars, render_vars, loop_vars,
               requested>>

\* a fill_buffer call on an output of len samples: the caller's buffer holds
\* anything, every instance renders anything
FillBuffer ==
  \E len \in {l \in 0..MaxFrames : l * VLen(synths) <= MaxRendered} :
    \E output \in Buffers(len), audio \in [DOMAIN synths -> Buffers(len)] :
      LET filled == fill_buffer(Self, output, audio)
      IN  /\ ~fault
          /\ Becomes(filled.self)
          /\ twin' = fill_buffer(twin, output, audio).self
          /\ last' = [op |-> "fill_buffer", cmd |-> len]
          /\ pre' = Snapshot
          /\ result' = [NoResult EXCEPT !.given = output,
                                        !.buffers = filled.temp_buffers,
                                        !.output = filled.output]
          /\ UNCHANGED <<max_threads, built, pending, retrigger, struck, limiter_vars, main_vars, render_vars, loop_vars,
               requested>>

\* a queue_midi_cmd call that keeps track of the instances its note-ons reach
QueueTracked ==
  \E cmd \in Cmds :
    /\ Queue(cmd)
    /\ struck' = struck \cup {sent'[i].idx : i \in {j \in DOMAIN sent' : IsNoteOn(sent'[j].cmd)}}
    /\ UNCHANGED <<pending, retrigger>>

\* what the instances can answer to get_polyphony: no voice when no note-on
\* was queued on the instance since it was built, else a voice count within
\* the max_polyphony it was constructed with
EngineReports ==
  {reports \in [DOMAIN synths -> 0..max_total_voices] :
     \A i \in DOMAIN synths :
       reports[i] <= (IF i \in struck THEN synths[i].max_polyphony ELSE 0)}

GetPolyphony ==
  \E reports \in EngineReports :
    /\ Observed("get_polyphony", 0)
    /\ result' = [NoResult EXCEPT !.value = get_polyphony(Self, reports),
                                  !.reports = reports]

GetMaxPolyphony ==
  /\ Observed("get_max_polyphony", 0)
  /\ result' = [NoResult EXCEPT !.value = get_max_polyphony(Self)]

InitRender ==
  \E threads \in 1..RenderMaxThreads, voices \in 0..RenderMaxVoices,
     drum_kit \in BOOLEAN, num_instances \in 0..RenderMaxThreads :
    Constructed(threads, voices, drum_kit, num_instances)

NextRender ==
  \/ QueueTracked
  \/ FillBuffer
  \/ GetPolyphony
  \/ GetMaxPolyphony
  \/ \E voices \in 0..RenderMaxVoices : SetMaxPolyphony(voices)
  \/ \E new_num_instances \in 0..RenderMaxThreads : SetNumInstances(new_num_instances)

SpecRender == InitRender /\ [][NextRender]_vars

\* ------------------------------------------- the rendering time ratio

\* what an instance can answer to get_rendering_time: the time it spent
\* rendering over the time rendered, none, a half or one and a half
Ratios == {Zero, Rat(1, 2), Rat(3, 2)}

GetRenderingTimeRatio ==
  \E ratios \in [DOMAIN synths -> Ratios] :
    /\ Observed("get_rendering_time_ratio", 0)
    /\ result' = [NoResult EXCEPT !.value = get_rendering_time_ratio(Self, ratios),
                                  !.reports = ratios]

InitRatio ==
  \E threads \in 1..MaxThreads, voices \in 0..MaxVoices,
     num_instances \in 0..MaxInstances :
    Constructed(threads, voices, FALSE, num_instances)

NextRatio ==
  \/ GetRenderingTimeRatio
  \/ \E voices \in 0..MaxVoices : SetMaxPolyphony(voices)
  \/ \E new_num_instances \in 0..MaxInstances : SetNumInstances(new_num_instances)

SpecRatio == InitRatio /\ [][NextRatio]_vars

\* ------------------------------------------------------ a limiter alone

\* the arguments of Limiter::new: sample rates in Hz, thresholds in dB, times
\* in milliseconds
SampleRates == {-1000, 0, 1000}
ThresholdsDb == {-20, 0, 20}
TimesMs == {-1, 0, 1, 3}
\* the samples of the buffers
Levels == {Rat(-1, 2), Zero, Rat(2, 1)}

\* the buffers of len samples
LimiterBuffers(len) == [1..len -> Levels]

InitLimiter ==
  \E sample_rate \in SampleRates, threshold_db \in ThresholdsDb,
     release_time_ms \in TimesMs, lookahead_ms \in TimesMs :
    /\ ConstructedScheduler(1, 0, FALSE, 0)
    /\ requested = 0
    /\ par = NoFill
    /\ loop = NoLoop
    /\ NoRenderLoop
    /\ limiter = Limiter_new(sample_rate, threshold_db, release_time_ms, lookahead_ms)
    /\ made_with = [sample_rate |-> sample_rate, threshold_db |-> threshold_db,
                    release_time_ms |-> release_time_ms, lookahead_ms |-> lookahead_ms]
    /\ trace = << >>
    /\ calls = << >>

\* a process call on a buffer of len samples
Process ==
  \E len \in 0..MaxBuffer :
    \E buffer \in LimiterBuffers(len) :
      /\ limiter.made
      /\ Len(trace) + len <= MaxSamples
      /\ LET done == process(limiter, buffer)
         IN  /\ limiter' = done.self
             /\ trace' = trace \o done.steps
      /\ calls' = IF calls = << >> THEN <<len>> ELSE <<calls[Len(calls)], len>>
      /\ UNCHANGED <<made_with, scheduler_vars, main_vars, render_vars, loop_vars>>

NextLimiter == Process

SpecLimiter == InitLimiter /\ [][NextLimiter]_vars

\* ------------------------------------------- the limiters of the render loop
\* (src/src/main.rs)

\* &mut synth_buffer[i..], as the sequence of its samples
SliceFrom(buffer, i) == [k \in 1..(VLen(buffer) - i) |-> buffer[i + k - 1]]

\* the indices of the buffer that &mut synth_buffer[i..] covers, in order
IndicesFrom(buffer, i) == [k \in 1..(VLen(buffer) - i) |-> i + k - 1]

\* the buffer once the slice from i was written through
WrittenFrom(buffer, i, slice) ==
  [j \in DOMAIN buffer |-> IF j < i THEN buffer[j] ELSE slice[j - i + 1]]

\* the loop over limiters.iter_mut().enumerate() from item i on: the
\* limiters and the buffer it leaves, and the indices each limiter was given
RECURSIVE apply_limiters(_, _)
apply_limiters(i, done) ==
  IF i >= Len(done.limiters) THEN done
  ELSE LET processed == process(done.limiters[i + 1], SliceFrom(done.synth_buffer, i))
       IN  apply_limiters(i + 1,
             [limiters |-> [done.limiters EXCEPT ![i + 1] = processed.self],
              synth_buffer |-> WrittenFrom(done.synth_buffer, i, processed.buffer),
              consumed |-> Append(done.consumed, IndicesFrom(done.synth_buffer, i))])

\* the sample rates of the command line, in Hz
MainSampleRates == {0, 10, 50}
\* what fill_buffer can leave in a sample of the buffer
MainLevels == {Zero, Rat(2, 1)}

InitMain ==
  \E channels \in 1..MaxChannels, sample_rate \in MainSampleRates,
     disable_limiter \in BOOLEAN :
    /\ ConstructedScheduler(1, 0, FALSE, 0)
    /\ requested = 0
    /\ par = NoFill
    /\ loop = NoLoop
    /\ NoLimiterAlone
    /\ num_channel = channels
    /\ limiters = IF ~disable_limiter
                    THEN <<Limiter_new(sample_rate, 0, 100, 20),
                           Limiter_new(sample_rate, 0, 100, 20)>>
                    ELSE << >>
    /\ synth_buffer = EmptyVec
    /\ consumed = << >>
    /\ total_rendered_frames = 0

\* one pass of the render loop with frame_count > 0: fill_buffer leaves
\* anything in the buffer, the limiters are applied, the sink takes the buffer
RenderFrames ==
  \E frame_count \in 1..(MaxTotalFrames - total_rendered_frames) :
    \E filled \in [0..(frame_count * num_channel - 1) -> MainLevels] :
      LET done == apply_limiters(0, [limiters |-> limiters,
                                     synth_buffer |-> filled,
                                     consumed |-> << >>])
      IN  /\ limiters' = done.limiters
          /\ synth_buffer' = done.synth_buffer
          /\ consumed' = done.consumed
          /\ total_rendered_frames' = total_rendered_frames + frame_count
          /\ UNCHANGED <<num_channel, scheduler_vars, limiter_vars, render_vars, loop_vars>>

NextMain == RenderFrames

SpecMain == InitMain /\ [][NextMain]_vars

\* ------------------------------------------------------------------ claims

Min(a, b) == IF a < b THEN a ELSE b
Max(a, b) == IF a > b THEN a ELSE b
CeilDiv(a, b) == (a + b - 1) \div b
FromSeq(s) == [i \in 0..(Len(s) - 1) |-> s[i + 1]]

\* the instance count the last build used: at most the execution units, at least 1
BuiltInstances == Max(1, Min(built.num_instances, max_threads))
BuiltVoices == built.max_total_voices

\* C1: after construction and after every rebuild the realized capacities add
\* up to the current total budget V, and each lies in 0..ceil(V/N'), N' being
\* the clamped instance count of the build.
CapacitiesSumToBudget ==
  /\ max_total_voices = BuiltVoices
  /\ Sum(max_voices) = max_total_voices
  /\ \A i \in DOMAIN max_voices :
       max_voices[i] >= 0 /\ max_voices[i] <= CeilDiv(BuiltVoices, BuiltInstances)

\* a rebuild left a budget that the instance count does not divide
CapacitiesSumToBudgetWitness ==
  /\ last.op \in {"set_max_polyphony", "set_num_instances"}
  /\ VLen(max_voices) >= 3
  /\ BuiltVoices % BuiltInstances # 0
  /\ \E i \in DOMAIN max_voices : max_voices[i] = CeilDiv(BuiltVoices, BuiltInstances)

\* the reference rule for instance i of n sharing v voices
ReferenceShare(v, n, i) == (v \div n) + (IF i < v % n THEN 1 ELSE 0)

\* C2: the realized capacities are those of the reference rule, floor(V/N')
\* and one more for the first V mod N' instances (the instances the rule gives
\* nothing being the ones not realized); V=10, N=3 gives [4,3,3] and V=10, N=4
\* gives [3,3,2,2] where that many execution units exist.
CapacitiesFollowReference ==
  /\ \A i \in 0..(BuiltInstances - 1) :
       IF i \in DOMAIN max_voices
         THEN max_voices[i] = ReferenceShare(BuiltVoices, BuiltInstances, i)
         ELSE ReferenceShare(BuiltVoices, BuiltInstances, i) = 0
  /\ DOMAIN max_voices \subseteq 0..(BuiltInstances - 1)
  /\ (built = [max_total_voices |-> 10, num_instances |-> 3] /\ max_threads >= 3)
       => max_voices = FromSeq(<<4, 3, 3>>)
  /\ (built = [max_total_voices |-> 10, num_instances |-> 4] /\ max_threads >= 4)
       => max_voices = FromSeq(<<3, 3, 2, 2>>)

\* set_num_instances(4) on a budget of 10 with four execution units
CapacitiesFollowReferenceWitness ==
  /\ last.op = "set_num_instances"
  /\ built = [max_total_voices |-> 10, num_instances |-> 4]
  /\ max_threads >= 4
  /\ max_voices = FromSeq(<<3, 3, 2, 2>>)

\* C3: the realized instance count is min(N', V) with N' the requested count
\* clamped to the execution units and then to at least 1, every realized
\* instance has capacity >= 1, and synths, max_voices and note_counts have the
\* same length.
RealizedInstances ==
  /\ VLen(synths) = Min(BuiltInstances, BuiltVoices)
  /\ \A i \in DOMAIN max_voices : max_voices[i] >= 1
  /\ DOMAIN synths = 0..(VLen(synths) - 1)
  /\ DOMAIN max_voices = DOMAIN synths
  /\ DOMAIN note_counts = DOMAIN synths
  /\ \A i \in DOMAIN synths : synths[i].max_polyphony = max_voices[i]

\* a rebuild asked for more instances than there are voices, and more than
\* there are execution units
RealizedInstancesWitness ==
  /\ last.op = "set_num_instances"
  /\ built.num_instances > max_threads
  /\ BuiltVoices < BuiltInstances
  /\ BuiltVoices >= 1
  /\ VLen(synths) = BuiltVoices

\* ---- the last call, as the claims about note-on and note-off see it

LastQueued == last.op = "queue_midi_cmd" /\ Melodic(last.cmd, drum_kit_storage)
LastNoteOn == LastQueued /\ IsNoteOn(last.cmd)
LastNoteOff == LastQueued /\ IsNoteOff(last.cmd)
LastKey == KeyOf(last.cmd)
\* the note-on reached an engine / reached none
LastAdmitted == LastNoteOn /\ Forwarded(last.cmd, sent)
LastDropped == LastNoteOn /\ ~Forwarded(last.cmd, sent)
\* the slot the note-on was forwarded to
ChosenSlot == sent[Len(sent)].idx
\* the key was in the routing table when the call began
WasSounding == LastKey \in DOMAIN pre.note_map

\* slot i has, in loads counts, the lowest load among the slots below their
\* capacity, and the lowest index among those of that load
LowestLoadSlot(i, counts) ==
  /\ i \in DOMAIN counts
  /\ counts[i] < max_voices[i]
  /\ \A j \in DOMAIN counts :
       counts[j] < max_voices[j] =>
         counts[i] < counts[j] \/ (counts[i] = counts[j] /\ i <= j)

NoFreeSlot(counts) == \A i \in DOMAIN counts : counts[i] >= max_voices[i]

\* the loads once the key's previous assignment, if any, is released
LoadsAfterRelease ==
  IF WasSounding
    THEN [pre.note_counts EXCEPT ![pre.note_map[LastKey]] = @ - 1]
    ELSE pre.note_counts

\* C4: once every note-on of a properly paired sequence has had its note-off,
\* the routing table is empty and every load is 0.
PairedSequenceLeavesNothing ==
  (\A k \in Keys : pending[k] = 0) =>
    /\ note_map = EmptyMap
    /\ \A i \in DOMAIN note_counts : note_counts[i] = 0

\* the sequence ended with the note-off of a note-on that was dropped or
\* retriggered: its key was no longer in the table
PairedSequenceLeavesNothingWitness ==
  /\ \A k \in Keys : pending[k] = 0
  /\ LastNoteOff
  /\ ~WasSounding
  /\ VLen(synths) > 0

NoteOffFrame ==
  LastNoteOff =>
    IF WasSounding
      THEN /\ sent = <<[idx |-> pre.note_map[LastKey], cmd |-> last.cmd]>>
           /\ pre.note_counts[pre.note_map[LastKey]] >= 1
           /\ note_counts = [pre.note_counts EXCEPT ![pre.note_map[LastKey]] = @ - 1]
           /\ \A i \in DOMAIN note_counts : note_counts[i] >= 0
           /\ note_map = MapRemove(pre.note_map, LastKey)
      ELSE /\ sent = << >>
           /\ note_map = pre.note_map
           /\ note_counts = pre.note_counts

\* a note-off released one of two keys that shared a slot
NoteOffFrameWitness ==
  /\ LastNoteOff
  /\ WasSounding
  /\ StatusNibble(last.cmd) = NoteOff
  /\ note_counts[pre.note_map[LastKey]] = 1

\* ---- two schedulers fed the same calls

\* how often entry e occurs in log
Occurrences(e, log) == Cardinality({i \in DOMAIN log : log[i] = e})
SameCommands(a, b) ==
  /\ Len(a) = Len(b)
  /\ \A i \in DOMAIN a : Occurrences(a[i], a) = Occurrences(a[i], b)

LastRebalanced == last.op \in {"set_max_polyphony", "set_num_instances"}

LastOnK0 == LastQueued /\ LastKey = K0 /\ Len(retrigger.slots) = 2
FirstSlot == retrigger.slots[1]
SecondSlot == retrigger.slots[2]

PreSelf ==
  [Self EXCEPT !.note_map = pre.note_map, !.note_counts = pre.note_counts,
               !.sent = << >>, !.fault = FALSE]
\* the slots a log addresses, in order
SlotsOf(log) == [i \in DOMAIN log |-> log[i].idx]
LastVelocityZero ==
  LastQueued /\ StatusNibble(last.cmd) = NoteOn /\ Velocity(last.cmd) = 0

\* C11: on the melodic path a note-on with velocity 0 leaves the routing
\* table and the loads as a note-off (status 0x80) of the same channel and
\* note, queued in the same state, leaves them, and is forwarded to the same slot.
VelocityZeroIsNoteOff ==
  LastVelocityZero =>
    \A velocity \in {0, 64} :
      LET off == queue_midi_cmd(PreSelf,
                                Pack(NoteOff + LastKey.channel, LastKey.note, velocity))
      IN  /\ note_map = off.note_map
          /\ note_counts = off.note_counts
          /\ SlotsOf(sent) = SlotsOf(off.sent)
          /\ fault = off.fault

\* a note-on with velocity 0 released a key that shared its slot with another
VelocityZeroIsNoteOffWitness ==
  /\ LastVelocityZero
  /\ WasSounding
  /\ sent = <<[idx |-> pre.note_map[LastKey], cmd |-> last.cmd]>>
  /\ LastKey \notin DOMAIN note_map
  /\ note_counts[pre.note_map[LastKey]] = 1

\* the last call was a queue_midi_cmd that took the drum path
LastDrum == last.op = "queue_midi_cmd" /\ ~Melodic(last.cmd, drum_kit_storage)
LastDrumNote == LastDrum /\ StatusNibble(last.cmd) \in {NoteOn, NoteOff}
NothingForwarded == sent = << >>
BookkeepingKept == note_map = pre.note_map /\ note_counts = pre.note_counts

\* C12: with a percussion kit, a note-on or note-off on channel 9 is forwarded
\* unchanged to the instance that holds the kit and to no other, any other
\* status on channel 9 is forwarded to no instance, and either way the
\* routing table and the loads stay as they were.
DrumTrafficBypassesBookkeeping ==
  LastDrum =>
    /\ BookkeepingKept
    /\ IF LastDrumNote
         THEN /\ sent = <<[idx |-> 0, cmd |-> last.cmd]>>
              /\ synths[0].drum_kit
         ELSE NothingForwarded

\* the last call queued a command with a status nibble from 0xA0 to 0xE0
LastChannelWide ==
  last.op = "queue_midi_cmd" /\ StatusNibble(last.cmd) \in {160, 176, 192, 208, 224}
\* cmd went to every instance once, in index order
EveryInstanceOnce(cmd) ==
  sent = [i \in 1..VLen(synths) |-> [idx |-> i - 1, cmd |-> cmd]]

\* C13, as stated: a channel-wide control command goes once to every
\* instance, whatever its channel, and changes neither table nor loads.
ChannelWideReachesAll ==
  LastChannelWide => EveryInstanceOnce(last.cmd) /\ BookkeepingKept

\* C13, amended: it goes once to every instance unless it is on channel 9 of
\* a scheduler with a percussion kit, where it goes to none; neither case
\* changes the table or the loads.
ChannelWideReachesAllButDrumChannel ==
  LastChannelWide =>
    /\ BookkeepingKept
    /\ ~fault
    /\ IF LastDrum THEN NothingForwarded ELSE EveryInstanceOnce(last.cmd)

\* a control change on channel 0 reached three instances, the one with the
\* kit among them, while keys were sounding
ChannelWideReachesAllWitness ==
  /\ LastChannelWide
  /\ ~LastDrum
  /\ Len(sent) = 3
  /\ synths[0].drum_kit
  /\ DOMAIN note_map # {}

\* the last call queued a command on channel 9 of a scheduler without a kit
LastDrumChannelNoKit ==
  last.op = "queue_midi_cmd" /\ ChannelOf(last.cmd) = DrumChannel /\ ~drum_kit_storage

\* C14: without a percussion kit, a note-on on channel 9 goes to the slot of
\* lowest load below capacity, is recorded and counted, and is dropped only
\* when every slot is full; a note-off on channel 9 releases the recorded slot.
NoKitDrumChannelIsMelodic ==
  LastDrumChannelNoKit =>
    /\ ~fault
    /\ IsNoteOn(last.cmd) =>
         IF NoFreeSlot(pre.note_counts) /\ ~WasSounding
           THEN NothingForwarded /\ BookkeepingKept
           ELSE /\ Forwarded(last.cmd, sent)
                /\ LowestLoadSlot(ChosenSlot, LoadsAfterRelease)
                /\ note_map = MapInsert(pre.note_map, LastKey, ChosenSlot)
                /\ note_counts = [LoadsAfterRelease EXCEPT ![ChosenSlot] = @ + 1]
    /\ IsNoteOff(last.cmd) =>
         IF WasSounding
           THEN /\ sent = <<[idx |-> pre.note_map[LastKey], cmd |-> last.cmd]>>
                /\ note_map = MapRemove(pre.note_map, LastKey)
                /\ note_counts = [pre.note_counts EXCEPT ![pre.note_map[LastKey]] = @ - 1]
           ELSE NothingForwarded /\ BookkeepingKept

\* a note-on on channel 9 went past the loaded slot 0 to slot 1
NoKitDrumChannelIsMelodicWitness ==
  /\ LastDrumChannelNoKit
  /\ IsNoteOn(last.cmd)
  /\ Forwarded(last.cmd, sent)
  /\ ChosenSlot = 1
  /\ pre.note_counts[0] = 1
  /\ note_map[LastKey] = 1
  /\ note_counts[1] = 1

\* the last call queued a command with a status byte below 0x80 or with the
\* status nibble 0xF0
LastUnrecognized ==
  last.op = "queue_midi_cmd"
    /\ (Status(last.cmd) < 128 \/ StatusNibble(last.cmd) = 240)

\* C15: a command with an unrecognized status is ignored: nothing is
\* forwarded, the routing table and the loads stay, no fault is raised.
UnrecognizedIsIgnored ==
  LastUnrecognized => NothingForwarded /\ BookkeepingKept /\ ~fault

\* a command with status 0xF0 was ignored while keys were sounding on two instances
UnrecognizedIsIgnoredWitness ==
  /\ LastUnrecognized
  /\ StatusNibble(last.cmd) = 240
  /\ ~LastDrum
  /\ VLen(synths) >= 2
  /\ DOMAIN note_map # {}
  /\ ~fault

\* ---- rebalancing

\* one note-off with velocity 0 per entry of the routing table the call
\* found, addressed to the slot recorded for it
FlushedEntries ==
  {[idx |-> pre.note_map[k], cmd |-> Pack(NoteOff + k.channel, k.note, 0)] :
     k \in DOMAIN pre.note_map}

\* C16: a rebalancing call forwards a note-off (0x80 | channel, note,
\* velocity 0) for every entry of the routing table to the slot recorded for
\* it, which it does before it replaces the instances, and returns with an
\* empty routing table and every load 0.
RebalanceFlushesThenClears ==
  LastRebalanced =>
    /\ ~fault
    /\ Len(sent) = Cardinality(DOMAIN pre.note_map)
    /\ {sent[i] : i \in DOMAIN sent} = FlushedEntries
    /\ \A i \in DOMAIN sent : sent[i].idx \in DOMAIN pre.note_counts
    /\ note_map = EmptyMap
    /\ DOMAIN note_counts = DOMAIN synths
    /\ \A i \in DOMAIN note_counts : note_counts[i] = 0

\* two keys were flushed, one of them to a slot the rebuilt scheduler no
\* longer has
RebalanceFlushesThenClearsWitness ==
  /\ LastRebalanced
  /\ Len(sent) >= 2
  /\ \E i \in DOMAIN sent : sent[i].idx >= VLen(synths)
  /\ VLen(synths) >= 1

\* ---- loads, capacities, rendering and telemetry

LastFilled == last.op = "fill_buffer"

\* C17: whatever queue commands, fill_buffer calls and rebalancing calls came
\* before, every slot's load is at least 0 and at most the slot's capacity.
LoadsWithinCapacity ==
  /\ DOMAIN note_counts = DOMAIN max_voices
  /\ \A i \in DOMAIN note_counts : 0 <= note_counts[i] /\ note_counts[i] <= max_voices[i]

\* after a fill_buffer call the one slot of a scheduler is at its capacity of 2
LoadsWithinCapacityWitness ==
  /\ LastFilled
  /\ VLen(synths) = 1
  /\ max_voices[0] = 2
  /\ note_counts[0] = 2

\* C18: queue_midi_cmd and fill_buffer change neither the instances nor any
\* capacity, fill_buffer changes neither the routing table nor any load, and
\* a step that changes the instances or a capacity is a rebalancing call.
CapacitiesChangeOnlyInRebuild ==
  [][/\ last'.op \in {"queue_midi_cmd", "fill_buffer"} =>
          synths' = synths /\ max_voices' = max_voices
     /\ last'.op = "fill_buffer" =>
          note_map' = note_map /\ note_counts' = note_counts
     /\ (synths' # synths \/ max_voices' # max_voices) =>
          last'.op \in {"set_max_polyphony", "set_num_instances"}]_vars

\* a fill_buffer call rendered sound while two keys were in the routing table
CapacitiesChangeOnlyInRebuildWitness ==
  /\ LastFilled
  /\ last.cmd >= 1
  /\ Cardinality(DOMAIN note_map) = 2
  /\ note_map = pre.note_map
  /\ note_counts = pre.note_counts
  /\ result.output[0] >= 1

FillBufferSumsInstances ==
  LastFilled =>
    /\ DOMAIN result.buffers = DOMAIN synths
    /\ \A i \in DOMAIN synths : VLen(result.buffers[i]) = last.cmd
    /\ VLen(result.output) = last.cmd
    /\ \A k \in DOMAIN result.output :
         /\ result.output[k] = Sum([i \in DOMAIN synths |-> result.buffers[i][k]])
         /\ VLen(synths) = 0 => result.output[k] = 0

\* two instances rendered a full-scale sample each into an output that held
\* one: the output holds 2
FillBufferSumsInstancesWitness ==
  /\ LastFilled
  /\ last.cmd >= 1
  /\ VLen(synths) = 2
  /\ result.given[0] = 1
  /\ result.output[0] = 2

\* ---- faults

\* C21: queue_midi_cmd raises no fault, whatever the command, the scheduler
\* state, the total voice budget (0 included) and the percussion kit.
QueueRaisesNoFault ==
  last.op = "queue_midi_cmd" => ~fault

\* ---- the limiter

\* the arguments pass the assertions of Limiter::new
ArgsAccepted ==
  /\ made_with.threshold_db <= 0
  /\ made_with.release_time_ms > 0
  /\ made_with.lookahead_ms > 0

\* C22: no Limiter is produced when threshold_db > 0, release_time_ms <= 0 or
\* lookahead_ms <= 0; otherwise one is produced, and before its first sample
\* its peak envelope is 0 and its smoothed gain 1.
ConstructionChecksThresholdAndTimes ==
  made_with # << >> =>
    /\ limiter.made <=> ArgsAccepted
    /\ (limiter.made /\ trace = << >>) =>
         (limiter.peak_envelope = Zero /\ limiter.smoothed_gain = One)

ConstructionChecksThresholdAndTimesWitness ==
  /\ made_with # << >>
  /\ limiter.made
  /\ trace = << >>
  /\ made_with.threshold_db = 0
  /\ made_with.release_time_ms = 3
  /\ limiter.peak_envelope = Zero
  /\ limiter.smoothed_gain = One

\* C23: a sample rate that is zero or negative produces no Limiter.
ConstructionChecksSampleRate ==
  (made_with # << >> /\ made_with.sample_rate <= 0) => ~limiter.made

\* the samples of the last process call, as trace holds them
LastCall ==
  SubSeq(trace, Len(trace) - calls[Len(calls)] + 1, Len(trace))

\* the samples processed before the last process call
BeforeLastCall == Len(trace) - calls[Len(calls)]

\* the last process call was given zeros only, and at least one
LastCallSilent ==
  /\ calls # << >>
  /\ LastCall # << >>
  /\ \A k \in DOMAIN LastCall : LastCall[k].sample = Zero

\* C24: whatever the limiter processed before, a process call on a buffer of
\* zeros leaves every sample of the buffer zero.
SilenceStaysSilent ==
  LastCallSilent => \A k \in DOMAIN LastCall : LastCall[k].out = Zero

SilenceStaysSilentWitness ==
  /\ LastCallSilent
  /\ BeforeLastCall > 0
  /\ RLt(Zero, trace[BeforeLastCall].peak_envelope)
  /\ RLt(trace[BeforeLastCall].smoothed_gain, One)
  /\ RLt(Zero, limiter.peak_envelope)
  /\ \A k \in DOMAIN LastCall : LastCall[k].out = Zero

\* since its construction the limiter was given one and the same sample, of
\* an amplitude above the threshold
ConstantAboveThreshold ==
  /\ limiter.made
  /\ trace # << >>
  /\ \A k \in DOMAIN trace : trace[k].sample = trace[1].sample
  /\ RLt(limiter.threshold, RAbs(trace[1].sample))

\* C25: a new limiter given a constant input of amplitude A above the
\* threshold has the gain threshold / A from the first sample on, so that
\* every output has the amplitude of the threshold.
ConstantInputHeldAtThreshold ==
  ConstantAboveThreshold =>
    \A k \in DOMAIN trace :
      /\ trace[k].smoothed_gain = RDiv(limiter.threshold, RAbs(trace[1].sample))
      /\ RAbs(trace[k].out) = limiter.threshold

\* since its construction with a threshold of 0 dB the limiter was given one
\* sample 2.0 and then zeros
ImpulseThenSilence ==
  /\ limiter.made
  /\ limiter.threshold = One
  /\ trace # << >>
  /\ trace[1].sample = Rat(2, 1)
  /\ \A k \in DOMAIN trace : k > 1 => trace[k].sample = Zero

\* C26: the impulse 2.0 leaves a new limiter of threshold 1.0 as 1.0, with
\* the gain 0.5; over the zeros that follow the gain never decreases from
\* one sample to the next and never exceeds 1.0.
ImpulseResponse ==
  ImpulseThenSilence =>
    /\ trace[1].out = One
    /\ trace[1].smoothed_gain = Rat(1, 2)
    /\ \A k \in DOMAIN trace :
         k > 1 => /\ RLe(trace[k - 1].smoothed_gain, trace[k].smoothed_gain)
                  /\ RLe(trace[k].smoothed_gain, One)

\* the limiter as it was before its last two process calls
BeforeLastTwoCalls ==
  LET n == Len(trace) - calls[1] - calls[2]
      new_limiter == Limiter_new(made_with.sample_rate, made_with.threshold_db,
                                 made_with.release_time_ms, made_with.lookahead_ms)
  IN  IF n = 0 THEN new_limiter
      ELSE [new_limiter EXCEPT !.peak_envelope = trace[n].peak_envelope,
                               !.smoothed_gain = trace[n].smoothed_gain]

\* the steps of the last two process calls
LastTwoCalls ==
  SubSeq(trace, Len(trace) - calls[1] - calls[2] + 1, Len(trace))

\* C28: two process calls in a row, on a and then on b, leave the samples,
\* the peak envelope and the smoothed gain that one call on a followed by b
\* leaves.
ProcessCallsConcatenate ==
  Len(calls) = 2 =>
    LET at_once == process(BeforeLastTwoCalls,
                           [k \in DOMAIN LastTwoCalls |-> LastTwoCalls[k].sample])
    IN  /\ at_once.self = limiter
        /\ at_once.buffer = [k \in DOMAIN LastTwoCalls |-> LastTwoCalls[k].out]

ProcessCallsConcatenateWitness ==
  /\ Len(calls) = 2
  /\ calls[1] > 0
  /\ calls[2] > 0
  /\ Len(trace) > calls[1] + calls[2]
  /\ RLt(Zero, BeforeLastTwoCalls.peak_envelope)
  /\ RLt(BeforeLastTwoCalls.smoothed_gain, One)
  /\ RLt(limiter.smoothed_gain, One)
  /\ limiter.smoothed_gain # BeforeLastTwoCalls.smoothed_gain
  /\ process(BeforeLastTwoCalls,
             [k \in DOMAIN LastTwoCalls |-> LastTwoCalls[k].sample]).self = limiter

GainAndEnvelopeInRange ==
  limiter.made =>
    \A k \in DOMAIN trace :
      /\ RLe(trace[k].smoothed_gain, inst_gain(limiter, trace[k].peak_envelope))
      /\ RLe(Zero, trace[k].smoothed_gain)
      /\ RLe(trace[k].smoothed_gain, One)
      /\ RLe(Zero, trace[k].peak_envelope)
      /\ RLe(RAbs(trace[k].sample), trace[k].peak_envelope)

\* a release step that stops short of its target, under an envelope that is
\* above the sample
GainAndEnvelopeInRangeWitness ==
  /\ limiter.made
  /\ \E k \in DOMAIN trace :
       /\ k > 1
       /\ RLt(trace[k - 1].smoothed_gain, trace[k].smoothed_gain)
       /\ RLt(trace[k].smoothed_gain, inst_gain(limiter, trace[k].peak_envelope))
       /\ RLt(RAbs(trace[k].sample), trace[k].peak_envelope)

\* ---- the limiters of the render loop

\* the indices of channel c in the interleaved buffer, in order
ChannelIndices(c) ==
  LET frames == (VLen(synth_buffer) - c + num_channel - 1) \div num_channel
  IN  [k \in 1..frames |-> c + (k - 1) * num_channel]

\* the limiters that were given the sample at idx
ProcessedBy(idx) ==
  {i \in DOMAIN consumed : \E k \in DOMAIN consumed[i] : consumed[i][k] = idx}

\* C27: in a pass of the render loop the limiter of channel c is given the
\* indices c, c + num_channel, ... of the buffer, in order; every sample is
\* given to one limiter, the one of its channel.
LimitersTakeOwnChannel ==
  (limiters # << >> /\ total_rendered_frames > 0) =>
    /\ \A i \in DOMAIN consumed : consumed[i] = ChannelIndices(i - 1)
    /\ \A idx \in DOMAIN synth_buffer :
         ProcessedBy(idx) = {(idx % num_channel) + 1}

\* ---- the routing table and the loads

\* the keys the routing table records on slot i
RoutedTo(i) == {k \in DOMAIN note_map : note_map[k] = i}

\* C31: every slot index of the routing table is below the number of
\* realized instances, and the load of a slot is the number of entries of the
\* routing table that point to it.
RoutingMatchesLoads ==
  /\ \A k \in DOMAIN note_map : note_map[k] >= 0 /\ note_map[k] < VLen(synths)
  /\ \A i \in DOMAIN note_counts : note_counts[i] = Cardinality(RoutedTo(i))

\* three keys sound on two instances
RoutingMatchesLoadsWitness ==
  /\ VLen(synths) = 2
  /\ Cardinality(DOMAIN note_map) = 3
  /\ note_counts[0] = 2
  /\ note_counts[1] = 1
  /\ Cardinality(RoutedTo(0)) = 2

\* ---- rebuilds

\* C32: set_max_polyphony(V') leaves the instances and the capacities of a
\* new scheduler of budget V' and of the instance count that was last
\* requested, by MultiSynth::new or by set_num_instances.
SetMaxPolyphonyKeepsRequest ==
  last.op = "set_max_polyphony" =>
    LET fresh == new(last.cmd, drum_kit_storage, requested, max_threads)
    IN  /\ synths = fresh.synths
        /\ max_voices = fresh.max_voices

\* the instances that hold the percussion kit
KitHolders == {i \in DOMAIN synths : synths[i].drum_kit}

\* C33: with a percussion kit and at least one instance, the kit is held by
\* the instance at index 0 and by no other, after construction and after
\* every rebuild, and a percussion note command is forwarded to index 0.
KitOnFirstInstance ==
  (drum_kit_storage /\ VLen(synths) >= 1) =>
    /\ KitHolders = {0}
    /\ LastDrumNote => sent = <<[idx |-> 0, cmd |-> last.cmd]>>

\* a percussion note-on reached the first of several instances
KitOnFirstInstanceWitness ==
  /\ drum_kit_storage
  /\ VLen(synths) >= 2
  /\ KitHolders = {0}
  /\ LastDrumNote
  /\ IsNoteOn(last.cmd)
  /\ sent = <<[idx |-> 0, cmd |-> last.cmd]>>

\* ---- fill_buffer, step by step

\* what instance i has left in its buffer after pos samples
WrittenSoFar(i) ==
  [k \in 0..(VLen(par.given) - 1) |-> IF k < par.pos[i] THEN par.audio[i][k] ELSE 0]

\* C34: while the instances render, in any interleaving, each buffer holds
\* what its own instance wrote and the output is untouched; the output is
\* cleared and summed only once every instance has rendered all its samples;
\* the output fill_buffer returns is the one of the call taken as one step.
ParallelRenderThenSum ==
  /\ par.phase = "render" =>
       /\ par.output = par.given
       /\ \A i \in DOMAIN par.status :
            par.temp[i] = IF par.status[i] = "queued" THEN EmptyVec ELSE WrittenSoFar(i)
  /\ par.phase \in {"sum", "done"} =>
       \A i \in DOMAIN par.status :
         /\ par.status[i] = "finished"
         /\ par.temp[i] = RenderInto(VLen(par.given), par.audio[i])
  /\ par.phase = "done" =>
       par.output = fill_buffer(Self, par.given, par.audio).output

\* two instances rendered at the same time, both a full sample into the
\* first place of a buffer the caller had not cleared
ParallelRenderThenSumWitness ==
  /\ par.phase = "done"
  /\ par.overlapped
  /\ VLen(par.given) = 2
  /\ par.given[0] = 1
  /\ par.output[0] = 2
  /\ par.output[1] = 0

\* ---- the render loop

\* the time of event number n since the start, in seconds
RECURSIVE TimeOf(_)
TimeOf(n) == IF n = 0 THEN Zero ELSE RAdd(TimeOf(n - 1), loop.events[n].delta)

\* the frames rendered by the calls before position k of the journal
RECURSIVE FramesBefore(_)
FramesBefore(k) ==
  IF k <= 1 THEN 0
  ELSE FramesBefore(k - 1)
       + (IF loop.journal[k - 1].op = "fill_buffer"
            THEN loop.journal[k - 1].len \div loop.num_channel ELSE 0)

\* the positions of the journal where a command was queued
QueuedAt == {k \in DOMAIN loop.journal : loop.journal[k].op = "queue_midi_cmd"}

\* the events that carry a command
Commands == {n \in DOMAIN loop.events : loop.events[n].event # NoCmd}

\* C35: in the render loop, when a command is queued the frames rendered so
\* far are the whole frames of the time accumulated up to its event, the
\* commands are queued in the order of the events, one per event that carries
\* a command, and the fractional accumulator stays in [0, 1) after each event
FramesBeforeCommand ==
  loop.phase = "loop" =>
    /\ \A k \in QueuedAt :
         /\ loop.journal[k].event \in Commands
         /\ loop.journal[k].cmd = loop.events[loop.journal[k].event].event
         /\ FramesBefore(k)
              = floor(RMul(TimeOf(loop.journal[k].event), Rat(loop.sample_rate, 1)))
    /\ \A j, k \in QueuedAt : j < k => loop.journal[j].event < loop.journal[k].event
    /\ {loop.journal[k].event : k \in QueuedAt} = Commands
    /\ RLe(Zero, loop.time_acc) /\ RLt(loop.time_acc, One)
    /\ loop.total_rendered_frames = FramesBefore(Len(loop.journal) + 1)

FramesBeforeCommandWitness ==
  /\ loop.phase = "loop"
  /\ loop.sample_rate = 1
  /\ Len(loop.events) = 2
  /\ loop.events[1].delta = Rat(1, 2)
  /\ loop.events[2].delta = Rat(1, 2)
  /\ loop.journal = <<queued_entry(Pack(NoteOn, 60, 100), 1),
                      filled_entry(loop.num_channel),
                      queued_entry(Pack(NoteOff, 60, 64), 2)>>
  /\ loop.time_acc = Zero

\* C36: the tail rendered after the last event is duration_sec = 1 second long:
\* sample_rate frames, sample_rate * num_channel samples, whatever the number
\* of channels
TailIsOneSecond ==
  loop.phase = "ended" =>
    /\ loop.journal[Len(loop.journal)].op = "fill_buffer"
    /\ loop.journal[Len(loop.journal)].len = loop.sample_rate * loop.num_channel


\* ---- the rendering time ratio

\* C37: get_rendering_time_ratio returns the largest of the ratios the
\* realized instances answer, 0 when there is no instance; it is not their mean
RatioIsTheLargest ==
  last.op = "get_rendering_time_ratio" =>
    IF VLen(synths) = 0 THEN result.value = Zero
    ELSE /\ \E i \in DOMAIN synths : result.value = result.reports[i]
         /\ \A i \in DOMAIN synths : RLe(result.reports[i], result.value)

RatioIsTheLargestWitness ==
  /\ last.op = "get_rendering_time_ratio"
  /\ VLen(synths) = 2
  /\ result.reports[0] = Rat(3, 2)
  /\ result.reports[1] = Rat(1, 2)
  /\ result.value = Rat(3, 2)

====
